---- MODULE Spec2Model ----
(***************************************************************************)
(* Model of the mcp-house-rules stdio server (src/src/index.ts): the boot  *)
(* code, the four request handlers registered on the server, the zod       *)
(* schema of the git_context tool and the chain of git invocations the     *)
(* call-tool handler awaits.                                               *)
(*                                                                         *)
(* Strings are sequences of atoms: an atom is either a whitespace          *)
(* character ("\n", " ") or a run of text holding no whitespace boundary   *)
(* the code looks at, so trim, split and join act as they do in the code.  *)
(* A handler is an async callback: it runs atomically up to its next       *)
(* await, and other requests are received while it is suspended.  The      *)
(* server object and the stdio transport are the SDK's: the model takes    *)
(* from them only that the value a handler returns, or the error it        *)
(* throws, becomes one frame on stdout.                                    *)
(***************************************************************************)
EXTENDS Integers, Sequences, FiniteSets, TLC

VARIABLES phase, exitCode, chan, reqs

vars == <<phase, exitCode, chan, reqs>>

(* ------------------------------ bounds --------------------------------- *)

\* number of request frames the client sends in one run
MaxRequests == 2

(* ------------------------- program constants --------------------------- *)

MinCommits == 1
MaxCommits == 50
DefaultCommits == 15

(* ------------------------------ strings -------------------------------- *)

IsWs(a) == a \in {"\n", " ", "\t"}

RECURSIVE TrimStart(_)
TrimStart(s) ==
  IF s = <<>> THEN <<>>
  ELSE IF IsWs(Head(s)) THEN TrimStart(Tail(s)) ELSE s

RECURSIVE TrimEnd(_)
TrimEnd(s) ==
  IF s = <<>> THEN <<>>
  ELSE IF IsWs(s[Len(s)]) THEN TrimEnd(SubSeq(s, 1, Len(s) - 1)) ELSE s

\* String.prototype.trim
Trim(s) == TrimEnd(TrimStart(s))

\* Array.prototype.join
RECURSIVE Join(_, _)
Join(lines, sep) ==
  IF lines = <<>> THEN <<>>
  ELSE IF Len(lines) = 1 THEN lines[1]
  ELSE lines[1] \o sep \o Join(Tail(lines), sep)

\* String.prototype.split on a one-atom separator
RECURSIVE SplitAcc(_, _, _)
SplitAcc(s, sep, cur) ==
  IF s = <<>> THEN <<cur>>
  ELSE IF Head(s) = sep THEN <<cur>> \o SplitAcc(Tail(s), sep, <<>>)
  ELSE SplitAcc(Tail(s), sep, Append(cur, Head(s)))

Split(s, sep) == SplitAcc(s, sep, <<>>)

\* Array.prototype.map with the callback (l) => `- ${l}`
Bullets(lines) == [k \in 1..Len(lines) |-> <<"- ">> \o lines[k]]

Digit(d) ==
  CASE d = 0 -> "0" [] d = 1 -> "1" [] d = 2 -> "2" [] d = 3 -> "3"
    [] d = 4 -> "4" [] d = 5 -> "5" [] d = 6 -> "6" [] d = 7 -> "7"
    [] d = 8 -> "8" [] d = 9 -> "9"

\* String(n) for a non-negative integer n
RECURSIVE NumToString(_)
NumToString(n) ==
  IF n < 10 THEN <<Digit(n)>> ELSE NumToString(n \div 10) \o <<Digit(n % 10)>>

(* ---------------------------- JSON values ------------------------------ *)

\* a number is int + tenths/10 (tenths in 0..9), so 2.5 is NumberVal(2, 5)
Undefined == [t |-> "undefined", s |-> <<>>, int |-> 0, tenths |-> 0]
StringVal(s) == [t |-> "string", s |-> s, int |-> 0, tenths |-> 0]
NumberVal(i, f) == [t |-> "number", s |-> <<>>, int |-> i, tenths |-> f]

EmptyBag == [k \in {} |-> Undefined]

\* request.params.arguments: absent, or an object of key -> value
NoArguments == [present |-> FALSE, bag |-> EmptyBag]
Arguments(bag) == [present |-> TRUE, bag |-> bag]

\* property read on an object that may lack the key (a?.k)
Prop(a, k) ==
  IF a.present /\ k \in DOMAIN a.bag THEN a.bag[k] ELSE Undefined

(* ------------------------- GitContextSchema ---------------------------- *)

Issue(path, code) == [path |-> path, code |-> code]

\* faulty variant: z.string() without .min(1)
RepoPathIssues_noMin(v) ==
  IF v.t # "string" THEN {Issue("repoPath", "invalid_type")} ELSE {}

\* z.string().min(1)
RepoPathIssues(v) ==
  IF v.t # "string" THEN {Issue("repoPath", "invalid_type")}
  ELSE IF Len(v.s) < 1 THEN {Issue("repoPath", "too_small")}
  ELSE {}

NumGE(v, k) == v.int >= k
NumLE(v, k) == v.int < k \/ (v.int = k /\ v.tenths = 0)

\* faulty variant: the schema without .max(50)
MaxCommitsIssues_noMax(v) ==
  IF v.t = "undefined" THEN {}
  ELSE IF v.t # "number" THEN {Issue("maxCommits", "invalid_type")}
  ELSE (IF v.tenths # 0 THEN {Issue("maxCommits", "invalid_type")} ELSE {})
       \cup (IF ~NumGE(v, MinCommits) THEN {Issue("maxCommits", "too_small")} ELSE {})

\* z.number().int().min(1).max(50).default(15): undefined takes the default
MaxCommitsIssues(v) ==
  IF v.t = "undefined" THEN {}
  ELSE IF v.t # "number" THEN {Issue("maxCommits", "invalid_type")}
  ELSE (IF v.tenths # 0 THEN {Issue("maxCommits", "invalid_type")} ELSE {})
       \cup (IF ~NumGE(v, MinCommits) THEN {Issue("maxCommits", "too_small")} ELSE {})
       \cup (IF ~NumLE(v, MaxCommits) THEN {Issue("maxCommits", "too_big")} ELSE {})

\* faulty variant: the object schema made strict, a key it does not declare
\* being an issue
GitContextIssues_strict(a) ==
  IF ~a.present THEN {Issue("", "invalid_type")}
  ELSE RepoPathIssues(Prop(a, "repoPath")) \cup MaxCommitsIssues(Prop(a, "maxCommits"))
         \cup (IF DOMAIN a.bag \subseteq {"repoPath", "maxCommits"}
               THEN {} ELSE {Issue("", "unrecognized_keys")})

\* the issues GitContextSchema.parse collects; parse throws iff there is one
GitContextIssues(a) ==
  IF ~a.present THEN {Issue("", "invalid_type")}
  ELSE RepoPathIssues(Prop(a, "repoPath")) \cup MaxCommitsIssues(Prop(a, "maxCommits"))

NoParsed == [repoPath |-> <<>>, maxCommits |-> 0]

\* faulty variant: the schema without .default(15), an absent maxCommits
\* reaching the handler as no number
GitContextParse_noDefault(a) ==
  [repoPath |-> Prop(a, "repoPath").s, maxCommits |-> Prop(a, "maxCommits").int]

\* the value GitContextSchema.parse returns (unknown keys are stripped)
GitContextParse(a) ==
  [repoPath |-> Prop(a, "repoPath").s,
   maxCommits |-> IF Prop(a, "maxCommits").t = "undefined"
                  THEN DefaultCommits ELSE Prop(a, "maxCommits").int]

(* ------------------------------ channels ------------------------------- *)

TextEntry(text) == [kind |-> "text", text |-> text]

\* faulty variant: console.log in place of process.stderr.write
log_stdout(c, args) ==
  [c EXCEPT !.stdout = Append(@, TextEntry(Join(args, <<" ">>) \o <<"\n">>))]

\* log(...args): args.map(String).join(" ") + "\n" written to process.stderr
log(c, args) ==
  [c EXCEPT !.stderr = Append(@, TextEntry(Join(args, <<" ">>) \o <<"\n">>))]

NoDecls == <<>>
NoBlocks == <<>>

ResultFrame(id, shape, blocks, decls) ==
  [kind |-> "frame", id |-> id, type |-> "result", shape |-> shape,
   blocks |-> blocks, message |-> <<>>, decls |-> decls, issues |-> {}]

ErrorFrame(id, shape, message, issues) ==
  [kind |-> "frame", id |-> id, type |-> "error", shape |-> shape,
   blocks |-> NoBlocks, message |-> message, decls |-> NoDecls, issues |-> issues]

\* the server writes the handler's result, or the error it threw, to stdout
Respond(c, frame) == [c EXCEPT !.stdout = Append(@, frame)]

(* ------------------------------ prompts -------------------------------- *)

HouseRules == <<"house_rules">>
GitContext == <<"git_context">>

\* faulty variant: a second prompt is advertised that get-prompt does not know
PromptDecls_unserved ==
  << [name |-> <<"house_rules">>, arguments |-> <<"mode">>, required |-> {}],
     [name |-> <<"nope">>, arguments |-> <<>>, required |-> {}] >>

\* the declarations the ListPrompts handler returns
PromptDecls ==
  << [name |-> HouseRules, arguments |-> <<"mode">>, required |-> {}] >>

\* the declarations the ListTools handler returns
ToolDecls ==
  << [name |-> GitContext, arguments |-> <<"repoPath", "maxCommits">>,
      required |-> {"repoPath"}] >>

ListPromptsHandler(id) == ResultFrame(id, "prompts", NoBlocks, PromptDecls)

\* faulty variant: the tool list is handed out once, later requests get none
ListToolsHandler_once(id) ==
  ResultFrame(id, "tools", NoBlocks, IF id = 1 THEN ToolDecls ELSE NoDecls)

ListToolsHandler(id) == ResultFrame(id, "tools", NoBlocks, ToolDecls)

\* faulty variant: the mode argument is never read
ModeOf_fixed(a) == <<"general">>

\* typeof request.params.arguments?.mode === "string" ? mode : "general"
ModeOf(a) ==
  IF Prop(a, "mode").t = "string" THEN Prop(a, "mode").s ELSE <<"general">>

RulesHead ==
  << <<"You are my coding assistant.">>,
     <<>>,
     <<"Operating rules:">>,
     <<"1) Prefer safe and reversible actions. Start read-only.">>,
     <<"2) Summarize what you plan to do before you do it.">>,
     <<"3) Keep scope small. If a task is large, propose the smallest next step.">>,
     <<"4) Be explicit. Use checklists and concrete commands.">>,
     <<"5) If you are blocked, ask one clarifying question. Otherwise proceed.">>,
     <<>> >>

RulesTail ==
  << <<>>,
     <<"When using tools:">>,
     <<"- Explain which tool you are calling and why.">>,
     <<"- If a tool can mutate data, confirm intent first.">> >>

\* the text array of the GetPrompt handler, joined with "\n"
RulesText(mode) ==
  Join(RulesHead \o << <<"Mode: ">> \o mode >> \o RulesTail, <<"\n">>)

TextBlock(role, text) == [role |-> role, type |-> "text", text |-> text]

\* faulty variant: a mode that is present and not a string is refused
GetPromptHandler_strict(id, name, a) ==
  IF name # HouseRules
  THEN ErrorFrame(id, "Error", <<"Unknown prompt: ">> \o name, {})
  ELSE IF Prop(a, "mode").t \notin {"undefined", "string"}
  THEN ErrorFrame(id, "ZodError", <<>>, {Issue("mode", "invalid_type")})
  ELSE ResultFrame(id, "prompt", <<TextBlock("user", RulesText(ModeOf(a)))>>, NoDecls)

GetPromptHandler(id, name, a) ==
  IF name # HouseRules
  THEN ErrorFrame(id, "Error", <<"Unknown prompt: ">> \o name, {})
  ELSE ResultFrame(id, "prompt", <<TextBlock("user", RulesText(ModeOf(a)))>>, NoDecls)

(* ------------------------- external processes -------------------------- *)

\* how one execFileAsync("git", argv) ends: it resolves with stdout when git
\* exits 0, and rejects when git cannot be launched or exits non-zero
ExecOutcome(status, stdout) == [status |-> status, stdout |-> stdout]

Resolved(o) == o.status = "ok"

ProbeArgv(p) == << <<"-C">>, p.repoPath, <<"rev-parse">>, <<"--is-inside-work-tree">> >>
BranchArgv(p) == << <<"-C">>, p.repoPath, <<"rev-parse">>, <<"--abbrev-ref">>, <<"HEAD">> >>
CommitsArgv(p) ==
  << <<"-C">>, p.repoPath, <<"log">>, <<"-n">>, NumToString(p.maxCommits),
     <<"--pretty=format:%h %s">> >>
DiffstatArgv(p) ==
  << <<"-C">>, p.repoPath, <<"show">>, <<"--stat">>, <<"--oneline">>, <<"-1">> >>

Running(cmd, argv) ==
  [cmd |-> cmd, argv |-> argv, status |-> "running", stdout |-> <<>>]

\* the last invocation of the log, completed with outcome o
Settle(invs, o) ==
  [invs EXCEPT ![Len(invs)] = [@ EXCEPT !.status = o.status, !.stdout = o.stdout]]

\* faulty variant: the probe's stdout is compared whether or not git succeeded
IsRepo_stdoutOnly(o) == Trim(o.stdout) = <<"true">>

\* .then((r) => r.stdout.trim() === "true").catch(() => false)
IsRepo(o) == Resolved(o) /\ Trim(o.stdout) = <<"true">>

\* the delimiter line of the diffstat block: three backquotes, which a TLA+
\* string cannot hold
Fence == <<"[3 backquotes]">>

\* faulty variant: an empty commit list gets no "- None" marker
Payload_noMarker(branch, commits, diffstat) ==
  Join(<< <<"# Repo Context">>,
          <<"- Branch: ">> \o branch,
          <<>>,
          <<"## Recent commits">>,
          Join(Bullets(Split(commits, "\n")), <<"\n">>),
          <<>>,
          <<"## Latest commit diffstat">>,
          Fence,
          diffstat,
          Fence >>, <<"\n">>)

\* the payload array of the CallTool handler, joined with "\n"
Payload(branch, commits, diffstat) ==
  Join(<< <<"# Repo Context">>,
          <<"- Branch: ">> \o branch,
          <<>>,
          <<"## Recent commits">>,
          IF commits # <<>>
          THEN Join(Bullets(Split(commits, "\n")), <<"\n">>)
          ELSE <<"- None">>,
          <<>>,
          <<"## Latest commit diffstat">>,
          Fence,
          diffstat,
          Fence >>, <<"\n">>)

(* ------------------------------ requests ------------------------------- *)

\* one request as its handler sees it, with the handler's position (pc), the
\* value parse returned, and the log of the git invocations it has started
NewRequest(method, name, a) ==
  [method |-> method, name |-> name, args |-> a, pc |-> "done",
   parseCalled |-> FALSE, parsed |-> NoParsed, invs |-> <<>>,
   branch |-> <<>>, commits |-> <<>>]

\* what one run of a handler up to its next await leaves behind: the request
\* and the frames written for it
Step(r, out) == [req |-> r, out |-> out]

\* faulty variant: the arguments are parsed before the name is looked at
CallToolEntry_parseFirst(id, name, a) ==
  LET r == [NewRequest("tools/call", name, a) EXCEPT !.parseCalled = TRUE]
      p == GitContextParse(a)
  IN  IF GitContextIssues(a) # {}
      THEN Step(r, <<ErrorFrame(id, "ZodError", <<>>, GitContextIssues(a))>>)
      ELSE IF name # GitContext
      THEN Step(r, <<ErrorFrame(id, "Error", <<"Unknown tool: ">> \o name, {})>>)
      ELSE Step([r EXCEPT !.parsed = p, !.pc = "probe",
                          !.invs = <<Running("probe", ProbeArgv(p))>>], <<>>)

\* CallTool handler from its entry to the await of the probe
CallToolEntry(id, name, a) ==
  LET r == NewRequest("tools/call", name, a)
      p == GitContextParse(a)
  IN  IF name # GitContext
      THEN Step(r, <<ErrorFrame(id, "Error", <<"Unknown tool: ">> \o name, {})>>)
      ELSE IF GitContextIssues(a) # {}
      THEN Step([r EXCEPT !.parseCalled = TRUE],
                <<ErrorFrame(id, "ZodError", <<>>, GitContextIssues(a))>>)
      ELSE Step([r EXCEPT !.parseCalled = TRUE, !.parsed = p, !.pc = "probe",
                          !.invs = <<Running("probe", ProbeArgv(p))>>], <<>>)

\* from the probe's completion to the await of the branch invocation
AfterProbe(id, r, o) ==
  IF ~IsRepo(o)
  THEN Step([r EXCEPT !.pc = "done", !.invs = Settle(@, o)],
            <<ResultFrame(id, "tool",
                <<TextBlock("", <<"Not a git repository: ">> \o r.parsed.repoPath)>>,
                NoDecls)>>)
  ELSE Step([r EXCEPT !.pc = "branch",
                      !.invs = Append(Settle(@, o), Running("branch", BranchArgv(r.parsed)))],
            <<>>)

\* faulty variant: the commit list and the diffstat are started together
AfterBranch_parallel(id, r, o) ==
  IF ~Resolved(o)
  THEN Step([r EXCEPT !.pc = "done", !.invs = Settle(@, o)],
            <<ErrorFrame(id, "ExecError", <<>>, {})>>)
  ELSE Step([r EXCEPT !.pc = "diffstat", !.branch = Trim(o.stdout),
                      !.invs = Settle(@, o)
                                 \o <<Running("commits", CommitsArgv(r.parsed)),
                                      Running("diffstat", DiffstatArgv(r.parsed))>>],
            <<>>)

\* from the branch invocation's completion to the await of the commit list
AfterBranch(id, r, o) ==
  IF ~Resolved(o)
  THEN Step([r EXCEPT !.pc = "done", !.invs = Settle(@, o)],
            <<ErrorFrame(id, "ExecError", <<>>, {})>>)
  ELSE Step([r EXCEPT !.pc = "commits", !.branch = Trim(o.stdout),
                      !.invs = Append(Settle(@, o), Running("commits", CommitsArgv(r.parsed)))],
            <<>>)

\* faulty variant: a failed commit list is caught and read as an empty list
AfterCommits_swallow(id, r, o) ==
  Step([r EXCEPT !.pc = "diffstat",
                 !.commits = IF Resolved(o) THEN Trim(o.stdout) ELSE <<>>,
                 !.invs = Append(Settle(@, o), Running("diffstat", DiffstatArgv(r.parsed)))],
       <<>>)

\* faulty variant: the diffstat is started but not awaited before the handler returns
AfterCommits_noAwait(id, r, o) ==
  IF ~Resolved(o)
  THEN Step([r EXCEPT !.pc = "done", !.invs = Settle(@, o)],
            <<ErrorFrame(id, "ExecError", <<>>, {})>>)
  ELSE Step([r EXCEPT !.pc = "diffstat", !.commits = Trim(o.stdout),
                      !.invs = Append(Settle(@, o), Running("diffstat", DiffstatArgv(r.parsed)))],
            <<ResultFrame(id, "tool",
                <<TextBlock("", Payload(r.branch, Trim(o.stdout), <<>>))>>, NoDecls)>>)

\* from the commit list's completion to the await of the diffstat
AfterCommits(id, r, o) ==
  IF ~Resolved(o)
  THEN Step([r EXCEPT !.pc = "done", !.invs = Settle(@, o)],
            <<ErrorFrame(id, "ExecError", <<>>, {})>>)
  ELSE Step([r EXCEPT !.pc = "diffstat", !.commits = Trim(o.stdout),
                      !.invs = Append(Settle(@, o), Running("diffstat", DiffstatArgv(r.parsed)))],
            <<>>)

\* faulty variant: a failed diffstat is caught and the handler never settles
AfterDiffstat_hang(id, r, o) ==
  IF ~Resolved(o)
  THEN Step([r EXCEPT !.pc = "done", !.invs = Settle(@, o)], <<>>)
  ELSE Step([r EXCEPT !.pc = "done", !.invs = Settle(@, o)],
            <<ResultFrame(id, "tool",
                <<TextBlock("", Payload(r.branch, r.commits, Trim(o.stdout)))>>,
                NoDecls)>>)

\* faulty variant: the payload carries the number of the request
AfterDiffstat_stamped(id, r, o) ==
  IF ~Resolved(o)
  THEN Step([r EXCEPT !.pc = "done", !.invs = Settle(@, o)],
            <<ErrorFrame(id, "ExecError", <<>>, {})>>)
  ELSE Step([r EXCEPT !.pc = "done", !.invs = Settle(@, o)],
            <<ResultFrame(id, "tool",
                <<TextBlock("", Payload(r.branch \o NumToString(id), r.commits,
                                        Trim(o.stdout)))>>,
                NoDecls)>>)

\* from the diffstat's completion to the handler's return
AfterDiffstat(id, r, o) ==
  IF ~Resolved(o)
  THEN Step([r EXCEPT !.pc = "done", !.invs = Settle(@, o)],
            <<ErrorFrame(id, "ExecError", <<>>, {})>>)
  ELSE Step([r EXCEPT !.pc = "done", !.invs = Settle(@, o)],
            <<ResultFrame(id, "tool",
                <<TextBlock("", Payload(r.branch, r.commits, Trim(o.stdout)))>>,
                NoDecls)>>)

(* ------------------------------- inputs -------------------------------- *)

RepoDir == <<"/repo">>

PromptArgs ==
  { NoArguments,
    Arguments(EmptyBag),
    Arguments("mode" :> StringVal(<<"review">>)),
    Arguments("mode" :> StringVal(<<"a", "\n", "b">>)),
    Arguments("mode" :> NumberVal(7, 0)),
    Arguments(("mode" :> StringVal(<<"review">>)) @@ ("extra" :> StringVal(<<"x">>))) }

\* get-prompt requests: house_rules with every argument bag, and two names
\* that are no prompt
PromptCalls ==
  ({HouseRules} \X PromptArgs)
    \cup { <<(<<"nope">>), NoArguments>>,
           <<GitContext, Arguments("mode" :> StringVal(<<"review">>))>> }

CountValues ==
  { NumberVal(0, 0), NumberVal(1, 0), NumberVal(50, 0), NumberVal(51, 0),
    NumberVal(2, 5), StringVal(<<"3">>) }

ToolArgs ==
  { NoArguments,
    Arguments(EmptyBag),
    Arguments("maxCommits" :> NumberVal(3, 0)),
    Arguments("repoPath" :> StringVal(<<>>)),
    Arguments("repoPath" :> NumberVal(5, 0)),
    Arguments("repoPath" :> StringVal(RepoDir)),
    Arguments(("repoPath" :> StringVal(RepoDir)) @@ ("extra" :> StringVal(<<"x">>))) }
  \cup { Arguments(("repoPath" :> StringVal(RepoDir)) @@ ("maxCommits" :> v)) :
           v \in CountValues }

\* call-tool requests: git_context with every argument bag, and two names
\* that are no tool, with arguments parse would accept and would reject
ToolCalls ==
  ({GitContext} \X ToolArgs)
    \cup { <<(<<"nope">>), Arguments("repoPath" :> StringVal(RepoDir))>>,
           <<HouseRules, Arguments(("repoPath" :> StringVal(RepoDir))
                                     @@ ("maxCommits" :> NumberVal(51, 0)))>> }

\* the requests the argument rules are about: declared keys given, left out
\* and at their bounds, keys that are not declared, an empty repoPath, and
\* each capability's name sent to the handler of the other kind
ArgumentPromptCalls ==
  { <<HouseRules, Arguments("mode" :> StringVal(<<"review">>))>>,
    <<HouseRules, Arguments(("mode" :> StringVal(<<"review">>))
                              @@ ("extra" :> StringVal(<<"x">>)))>>,
    <<GitContext, Arguments("mode" :> StringVal(<<"review">>))>> }

ArgumentToolCalls ==
  { <<GitContext, Arguments("repoPath" :> StringVal(RepoDir))>>,
    <<GitContext, Arguments(("repoPath" :> StringVal(RepoDir))
                              @@ ("extra" :> StringVal(<<"x">>)))>>,
    <<GitContext, Arguments(("repoPath" :> StringVal(RepoDir))
                              @@ ("maxCommits" :> NumberVal(1, 0)))>>,
    <<GitContext, Arguments(("repoPath" :> StringVal(RepoDir))
                              @@ ("maxCommits" :> NumberVal(50, 0)))>>,
    <<GitContext, Arguments("repoPath" :> StringVal(<<>>))>>,
    <<HouseRules, Arguments(("repoPath" :> StringVal(RepoDir))
                              @@ ("maxCommits" :> NumberVal(51, 0)))>> }

FewPromptCalls ==
  { <<HouseRules, NoArguments>>, <<(<<"nope">>), NoArguments>> }

FewToolCalls ==
  { <<GitContext, Arguments("repoPath" :> StringVal(RepoDir))>>,
    <<GitContext, Arguments(("repoPath" :> StringVal(RepoDir))
                              @@ ("maxCommits" :> NumberVal(51, 0)))>>,
    <<(<<"nope">>), Arguments("repoPath" :> StringVal(RepoDir))>> }

ProbeOutcomes ==
  { ExecOutcome("launchfail", <<>>),
    ExecOutcome("nonzero", <<"true", "\n">>),
    ExecOutcome("ok", <<"false", "\n">>),
    ExecOutcome("ok", <<"true", "\n">>) }

BranchOutcomes ==
  { ExecOutcome("nonzero", <<>>),
    ExecOutcome("ok", <<"main", "\n">>) }

CommitsOutcomes ==
  { ExecOutcome("launchfail", <<>>),
    ExecOutcome("ok", <<>>),
    ExecOutcome("ok", <<"a1 fix", "\n", "b2 add">>) }

DiffstatOutcomes ==
  { ExecOutcome("nonzero", <<>>),
    ExecOutcome("ok", <<"a1 fix", "\n", " f.ts | 2 +-", "\n">>) }

(* ------------------------------- actions ------------------------------- *)

Init ==
  /\ phase = "connecting"
  /\ exitCode = <<>>
  /\ chan = [stdout |-> <<>>, stderr |-> <<>>]
  /\ reqs = <<>>

\* main(): server.connect(transport) resolves, then the startup line is logged
ConnectOk ==
  /\ phase = "connecting"
  /\ phase' = "serving"
  /\ chan' = log(chan, << <<"mcp-house-rules running on stdio">> >>)
  /\ UNCHANGED <<exitCode, reqs>>

\* faulty variant: the catch logs the error and does not exit
ConnectFail_noExit ==
  /\ phase = "connecting"
  /\ phase' = "serving"
  /\ chan' = log(chan, << <<"Fatal error:">>, <<"Error: connect">> >>)
  /\ UNCHANGED <<exitCode, reqs>>

\* main().catch: the error is logged and the process exits with code 1
ConnectFail ==
  /\ phase = "connecting"
  /\ phase' = "exited"
  /\ exitCode' = <<1>>
  /\ chan' = log(chan, << <<"Fatal error:">>, <<"Error: connect">> >>)
  /\ UNCHANGED reqs

Accepting == phase = "serving" /\ Len(reqs) < MaxRequests

RECURSIVE RespondAll(_, _)
RespondAll(c, out) ==
  IF out = <<>> THEN c ELSE RespondAll(Respond(c, Head(out)), Tail(out))

\* faulty variant: an error thrown by a handler is not caught and ends the
\* process
Dispatch_uncaught(s) ==
  LET thrown == \E k \in 1..Len(s.out) : s.out[k].type = "error"
  IN  /\ reqs' = Append(reqs, s.req)
      /\ chan' = RespondAll(chan, s.out)
      /\ phase' = IF thrown THEN "exited" ELSE phase
      /\ exitCode' = IF thrown THEN <<1>> ELSE exitCode

\* a request frame arrives and its handler runs to its first await or its end
Dispatch(s) ==
  /\ reqs' = Append(reqs, s.req)
  /\ chan' = RespondAll(chan, s.out)
  /\ UNCHANGED <<phase, exitCode>>

ListPrompts ==
  /\ Accepting
  /\ Dispatch(Step(NewRequest("prompts/list", <<>>, NoArguments),
                   <<ListPromptsHandler(Len(reqs) + 1)>>))

\* a get-prompt frame, its name and arguments drawn from calls
GetPromptOf(calls) ==
  /\ Accepting
  /\ \E c \in calls :
       Dispatch(Step(NewRequest("prompts/get", c[1], c[2]),
                     <<GetPromptHandler(Len(reqs) + 1, c[1], c[2])>>))

GetPrompt == GetPromptOf(PromptCalls)

ListTools ==
  /\ Accepting
  /\ Dispatch(Step(NewRequest("tools/list", <<>>, NoArguments),
                   <<ListToolsHandler(Len(reqs) + 1)>>))

\* a call-tool frame, its name and arguments drawn from calls
CallToolOf(calls) ==
  /\ Accepting
  /\ \E c \in calls :
       Dispatch(CallToolEntry(Len(reqs) + 1, c[1], c[2]))

CallTool == CallToolOf(ToolCalls)

\* a suspended handler is resumed by the completion of the invocation it awaits
Resume(i, s) ==
  /\ reqs' = [reqs EXCEPT ![i] = s.req]
  /\ chan' = RespondAll(chan, s.out)
  /\ UNCHANGED <<phase, exitCode>>

Awaiting(i, pc) == phase = "serving" /\ i <= Len(reqs) /\ reqs[i].pc = pc

ProbeDone(i) ==
  /\ Awaiting(i, "probe")
  /\ \E o \in ProbeOutcomes : Resume(i, AfterProbe(i, reqs[i], o))

BranchDone(i) ==
  /\ Awaiting(i, "branch")
  /\ \E o \in BranchOutcomes : Resume(i, AfterBranch(i, reqs[i], o))

CommitsDone(i) ==
  /\ Awaiting(i, "commits")
  /\ \E o \in CommitsOutcomes : Resume(i, AfterCommits(i, reqs[i], o))

DiffstatDone(i) ==
  /\ Awaiting(i, "diffstat")
  /\ \E o \in DiffstatOutcomes : Resume(i, AfterDiffstat(i, reqs[i], o))

\* the invocation request i awaits completes
ExecDone(i) == ProbeDone(i) \/ BranchDone(i) \/ CommitsDone(i) \/ DiffstatDone(i)

Next ==
  \/ ConnectOk
  \/ ConnectFail
  \/ ListPrompts
  \/ GetPrompt
  \/ ListTools
  \/ CallTool
  \/ \E i \in 1..MaxRequests : ProbeDone(i)
  \/ \E i \in 1..MaxRequests : BranchDone(i)
  \/ \E i \in 1..MaxRequests : CommitsDone(i)
  \/ \E i \in 1..MaxRequests : DiffstatDone(i)

Spec == Init /\ [][Next]_vars

\* the same server, its clients sending one request of each kind of outcome:
\* termination does not depend on which arguments are refused
NextFewInputs ==
  \/ ConnectOk
  \/ ConnectFail
  \/ ListPrompts
  \/ GetPromptOf(FewPromptCalls)
  \/ ListTools
  \/ CallToolOf(FewToolCalls)
  \/ \E i \in 1..MaxRequests : ProbeDone(i)
  \/ \E i \in 1..MaxRequests : BranchDone(i)
  \/ \E i \in 1..MaxRequests : CommitsDone(i)
  \/ \E i \in 1..MaxRequests : DiffstatDone(i)

\* every invocation a request awaits terminates
FairSpec ==
  /\ Init
  /\ [][NextFewInputs]_vars
  /\ \A i \in 1..MaxRequests : WF_vars(ExecDone(i))

\* the same server, its clients sending the requests of ArgumentPromptCalls
\* and ArgumentToolCalls
NextArgumentInputs ==
  \/ ConnectOk
  \/ ConnectFail
  \/ ListPrompts
  \/ GetPromptOf(ArgumentPromptCalls)
  \/ ListTools
  \/ CallToolOf(ArgumentToolCalls)
  \/ \E i \in 1..MaxRequests : ProbeDone(i)
  \/ \E i \in 1..MaxRequests : BranchDone(i)
  \/ \E i \in 1..MaxRequests : CommitsDone(i)
  \/ \E i \in 1..MaxRequests : DiffstatDone(i)

ArgumentSpec == Init /\ [][NextArgumentInputs]_vars

(* ------------------------- reading the state --------------------------- *)

Ids == 1..Len(reqs)

\* the frames written to stdout for request i, in the order written
FramesOf(i) ==
  SelectSeq(chan.stdout, LAMBDA e : e.kind = "frame" /\ e.id = i)

Answered(i) == FramesOf(i) # <<>>

IsCallTool(i) == reqs[i].method = "tools/call"
IsGetPrompt(i) == reqs[i].method = "prompts/get"

IsPrefixOf(s, t) == Len(s) <= Len(t) /\ SubSeq(t, 1, Len(s)) = s

Failed(inv) == inv.status \in {"launchfail", "nonzero"}

(* -------------------------------- C1 ----------------------------------- *)

UnknownName(i) ==
  \/ IsGetPrompt(i) /\ reqs[i].name # <<"house_rules">>
  \/ IsCallTool(i) /\ reqs[i].name # <<"git_context">>

NotFoundMessage(i) ==
  (IF IsGetPrompt(i) THEN <<"Unknown prompt: ">> ELSE <<"Unknown tool: ">>)
    \o reqs[i].name

\* C1: a get-prompt whose name is not house_rules and a call-tool whose name
\* is not git_context end in one error frame naming the unknown capability,
\* never in a content frame; parse is not called and no git invocation is
\* started for them.
C1_UnknownNameNeverReachesHandler ==
  \A i \in Ids :
    UnknownName(i) =>
      LET fs == FramesOf(i) IN
        /\ Len(fs) = 1
        /\ fs[1].type = "error"
        /\ fs[1].message = NotFoundMessage(i)
        /\ fs[1].blocks = <<>>
        /\ ~reqs[i].parseCalled
        /\ reqs[i].invs = <<>>

\* an unknown tool called with arguments git_context would accept, answered,
\* and an unknown prompt, answered
C1_Witness ==
  /\ \E i \in Ids :
       /\ IsCallTool(i) /\ reqs[i].name = <<"nope">>
       /\ reqs[i].args = Arguments("repoPath" :> StringVal(<<"/repo">>))
       /\ Answered(i)
  /\ \E i \in Ids : IsGetPrompt(i) /\ reqs[i].name = <<"git_context">> /\ Answered(i)

(* -------------------------------- C2 ----------------------------------- *)

\* the claim's own reading of "arguments fail validation"
C2_ClaimInvalid(a) ==
  \/ Prop(a, "repoPath").t # "string"
  \/ /\ Prop(a, "maxCommits").t # "undefined"
     /\ ~( /\ Prop(a, "maxCommits").t = "number"
           /\ Prop(a, "maxCommits").tenths = 0
           /\ Prop(a, "maxCommits").int \in 1..50 )

\* C2: a call-tool git_context whose repoPath is missing or not a string, or
\* whose maxCommits is not an integer in [1,50], ends in a validation error
\* with no git invocation; whenever a git invocation has been started for a
\* request, its repoPath is a string and its maxCommits an integer in [1,50].
C2_InvalidArgumentsNeverInvoke ==
  \A i \in Ids :
    (IsCallTool(i) /\ reqs[i].name = <<"git_context">>) =>
      /\ C2_ClaimInvalid(reqs[i].args) =>
           LET fs == FramesOf(i) IN
             /\ reqs[i].invs = <<>>
             /\ Len(fs) = 1
             /\ fs[1].type = "error"
             /\ fs[1].shape = "ZodError"
             /\ fs[1].issues # {}
      /\ reqs[i].invs # <<>> =>
           /\ Prop(reqs[i].args, "repoPath").t = "string"
           /\ reqs[i].parsed.repoPath = Prop(reqs[i].args, "repoPath").s
           /\ reqs[i].parsed.maxCommits \in 1..50
           /\ Prop(reqs[i].args, "maxCommits").t \in {"undefined", "number"}
           /\ Prop(reqs[i].args, "maxCommits").t = "number" =>
                /\ Prop(reqs[i].args, "maxCommits").tenths = 0
                /\ Prop(reqs[i].args, "maxCommits").int = reqs[i].parsed.maxCommits

\* maxCommits 51 and maxCommits 0, both rejected
C2_Witness ==
  /\ \E i \in Ids :
       /\ IsCallTool(i) /\ reqs[i].name = <<"git_context">>
       /\ Prop(reqs[i].args, "maxCommits") = NumberVal(51, 0)
       /\ Answered(i)
  /\ \E i \in Ids :
       /\ IsCallTool(i) /\ reqs[i].name = <<"git_context">>
       /\ Prop(reqs[i].args, "maxCommits") = NumberVal(0, 0)
       /\ Answered(i)

(* -------------------------------- C3 ----------------------------------- *)

\* the probe of request i has completed without the answer "true"
C3_ProbeFailed(i) ==
  /\ reqs[i].invs # <<>>
  /\ reqs[i].invs[1].cmd = "probe"
  /\ reqs[i].invs[1].status # "running"
  /\ ~(reqs[i].invs[1].status = "ok" /\ Trim(reqs[i].invs[1].stdout) = <<"true">>)

\* C3: when the probe cannot be launched, exits non-zero, or prints anything
\* but "true", the request returns one content frame (not an error) with the
\* text "Not a git repository: <repoPath>", and no branch, commits or diffstat
\* invocation is started.
C3_ProbeFailureIsSoftOutcome ==
  \A i \in Ids :
    C3_ProbeFailed(i) =>
      LET fs == FramesOf(i) IN
        /\ Len(reqs[i].invs) = 1
        /\ Len(fs) = 1
        /\ fs[1].type = "result"
        /\ Len(fs[1].blocks) = 1
        /\ fs[1].blocks[1].text =
             <<"Not a git repository: ">> \o Prop(reqs[i].args, "repoPath").s

\* a probe that exited non-zero although it printed "true", and one that
\* could not be launched
C3_Witness ==
  /\ \E i \in Ids :
       /\ C3_ProbeFailed(i) /\ reqs[i].invs[1].status = "nonzero"
       /\ Trim(reqs[i].invs[1].stdout) = <<"true">>
  /\ \E i \in Ids : C3_ProbeFailed(i) /\ reqs[i].invs[1].status = "launchfail"

(* -------------------------------- C4 ----------------------------------- *)

\* C4: after a successful probe, a failed branch, commits or diffstat
\* invocation ends the request in one error frame: it is the last invocation
\* of the request (nothing is started after it), no command is run twice
\* (no retry), and no content frame is written.
C4_LaterFailurePropagates ==
  \A i \in Ids :
    \A k \in 2..Len(reqs[i].invs) :
      Failed(reqs[i].invs[k]) =>
        /\ k = Len(reqs[i].invs)
        /\ \A m, n \in 1..Len(reqs[i].invs) :
             reqs[i].invs[m].cmd = reqs[i].invs[n].cmd => m = n
        /\ LET fs == FramesOf(i) IN
             Len(fs) = 1 /\ fs[1].type = "error" /\ fs[1].blocks = <<>>

\* a commit list that could not be launched and a branch lookup that exited
\* non-zero
C4_Witness ==
  /\ \E i \in Ids :
       /\ Len(reqs[i].invs) = 3
       /\ reqs[i].invs[3].cmd = "commits" /\ reqs[i].invs[3].status = "launchfail"
  /\ \E i \in Ids :
       /\ Len(reqs[i].invs) = 2
       /\ reqs[i].invs[2].cmd = "branch" /\ reqs[i].invs[2].status = "nonzero"

(* -------------------------------- C5 ----------------------------------- *)

C5_Order == <<"probe", "branch", "commits", "diffstat">>

\* C5: the invocations of one request are started in the order probe,
\* branch, commits, diffstat, each only after the one before it succeeded;
\* at most one is running, and there are at most four.
C5_InvocationsSequential ==
  \A i \in Ids :
    LET invs == reqs[i].invs IN
      /\ Len(invs) <= 4
      /\ IsPrefixOf([k \in 1..Len(invs) |-> invs[k].cmd], C5_Order)
      /\ \A k \in 1..(Len(invs) - 1) : invs[k].status = "ok"
      /\ Len(invs) >= 2 => Trim(invs[1].stdout) = <<"true">>
      /\ Cardinality({k \in 1..Len(invs) : invs[k].status = "running"}) <= 1

\* a request that ran all four invocations, and one with its third running
C5_Witness ==
  /\ \E i \in Ids :
       /\ Len(reqs[i].invs) = 4
       /\ \A k \in 1..4 : reqs[i].invs[k].status = "ok"
  /\ \E i \in Ids :
       /\ Len(reqs[i].invs) = 3 /\ reqs[i].invs[3].status = "running"

(* -------------------------------- C6 ----------------------------------- *)

\* the position of request i's first frame on stdout (0 when it has none)
FramePos(i) ==
  IF \E k \in 1..Len(chan.stdout) : chan.stdout[k].kind = "frame" /\ chan.stdout[k].id = i
  THEN CHOOSE k \in 1..Len(chan.stdout) :
         /\ chan.stdout[k].kind = "frame" /\ chan.stdout[k].id = i
         /\ \A m \in 1..(k - 1) : ~(chan.stdout[m].kind = "frame" /\ chan.stdout[m].id = i)
  ELSE 0

\* C6 as stated: responses preserve request order, the frame of an earlier
\* request being written before the frame of any later one.
C6_ResponsesInRequestOrder ==
  \A i, j \in Ids :
    (i < j /\ FramePos(j) > 0) => (FramePos(i) > 0 /\ FramePos(i) < FramePos(j))

\* request i is a call-tool git_context that awaited a git invocation
C6_Awaited(i) ==
  IsCallTool(i) /\ reqs[i].name = <<"git_context">> /\ reqs[i].invs # <<>>

\* C6 as amended: responses are written in the order the handlers finish. A
\* frame is written only once every invocation its request awaited has
\* completed; a request that awaits nothing is answered when it is received;
\* and a response overtakes an earlier request only when that request is a
\* call-tool git_context that awaited a git invocation.
C6_ResponsesInCompletionOrder ==
  /\ \A k \in 1..Len(chan.stdout) :
       LET r == reqs[chan.stdout[k].id] IN
         /\ r.pc = "done"
         /\ \A n \in 1..Len(r.invs) : r.invs[n].status # "running"
  /\ \A i \in Ids :
       ~C6_Awaited(i) => \E k \in 1..Len(chan.stdout) : chan.stdout[k].id = i
  /\ \A k, m \in 1..Len(chan.stdout) :
       (k < m /\ chan.stdout[k].id > chan.stdout[m].id) => C6_Awaited(chan.stdout[m].id)

\* a list-tools received after a call-tool was answered first, and the
\* call-tool was answered after it, once its four invocations had completed
C6_Witness ==
  /\ Len(reqs) = 2
  /\ IsCallTool(1) /\ Len(reqs[1].invs) = 4
  /\ reqs[2].method = "tools/list"
  /\ FramePos(2) = 1 /\ FramePos(1) = 2

(* -------------------------------- C7 ----------------------------------- *)

C7_AtMostOneOutcome ==
  \A i \in Ids :
    LET fs == FramesOf(i) IN
      /\ Len(fs) <= 1
      /\ (reqs[i].pc = "done") <=> (Len(fs) = 1)
      /\ Len(fs) = 1 =>
           \/ fs[1].type = "result" /\ fs[1].message = <<>> /\ fs[1].issues = {}
           \/ fs[1].type = "error" /\ fs[1].blocks = <<>> /\ fs[1].decls = <<>>

\* C7: every request gets exactly one outcome: never more than one frame,
\* that frame is either a result or an error, and, every invocation it awaits
\* terminating, every received request is eventually answered.
C7_ExactlyOneOutcome ==
  /\ []C7_AtMostOneOutcome
  /\ \A i \in 1..MaxRequests : (Len(reqs) >= i) ~> (Len(reqs) >= i /\ Len(FramesOf(i)) = 1)

\* a call-tool answered with an error after its diffstat failed, beside a
\* request answered with a result
C7_Witness ==
  /\ \E i \in Ids :
       /\ Len(reqs[i].invs) = 4 /\ Failed(reqs[i].invs[4])
       /\ Len(FramesOf(i)) = 1 /\ FramesOf(i)[1].type = "error"
  /\ \E i \in Ids : Len(FramesOf(i)) = 1 /\ FramesOf(i)[1].type = "result"

(* -------------------------------- C8 ----------------------------------- *)

C8_StartupLine == <<"mcp-house-rules running on stdio", "\n">>
C8_FatalLine == <<"Fatal error:", " ", "Error: connect", "\n">>

\* C8: stdout holds only result and error frames of requests whose handler
\* has finished; the startup confirmation and the fatal-error narration are
\* text on stderr and nowhere else.
C8_ChannelDiscipline ==
  /\ \A k \in 1..Len(chan.stdout) :
       /\ chan.stdout[k].kind = "frame"
       /\ chan.stdout[k].type \in {"result", "error"}
       /\ chan.stdout[k].id \in Ids
       /\ reqs[chan.stdout[k].id].pc = "done"
  /\ \A k \in 1..Len(chan.stderr) : chan.stderr[k].kind = "text"
  /\ phase = "connecting" => chan.stderr = <<>>
  /\ phase = "serving" => chan.stderr = <<TextEntry(C8_StartupLine)>>
  /\ phase = "exited" => (chan.stderr = <<TextEntry(C8_FatalLine)>> /\ chan.stdout = <<>>)

\* the server has started and has written a result frame and an error frame
C8_Witness ==
  /\ phase = "serving"
  /\ chan.stderr # <<>>
  /\ \E k \in 1..Len(chan.stdout) : chan.stdout[k].type = "result"
  /\ \E k \in 1..Len(chan.stdout) : chan.stdout[k].type = "error"

(* -------------------------------- C9 ----------------------------------- *)

IsHouseRules(i) == IsGetPrompt(i) /\ reqs[i].name = <<"house_rules">>

\* text holds the line "Mode: " m, starting at atom k
ModeLineAt(text, k, m) ==
  /\ k >= 2 /\ k + Len(m) + 1 <= Len(text)
  /\ text[k - 1] = "\n"
  /\ text[k] = "Mode: "
  /\ SubSeq(text, k + 1, k + Len(m)) = m
  /\ text[k + Len(m) + 1] = "\n"

C9_PromptText(i) == FramesOf(i)[1].blocks[1].text

\* C9: get-prompt house_rules returns one user-role text message; with no
\* mode given its text holds the line "Mode: general", with a string mode m
\* the line "Mode: m"; two answers differ in nothing but the mode.
C9_ModeLine ==
  /\ \A i \in Ids :
       (IsHouseRules(i) /\ Prop(reqs[i].args, "mode").t \in {"undefined", "string"}) =>
         LET fs == FramesOf(i)
             m == IF Prop(reqs[i].args, "mode").t = "undefined"
                  THEN <<"general">> ELSE Prop(reqs[i].args, "mode").s
         IN  /\ Len(fs) = 1
             /\ fs[1].type = "result"
             /\ Len(fs[1].blocks) = 1
             /\ fs[1].blocks[1].role = "user"
             /\ fs[1].blocks[1].type = "text"
             /\ \E k \in 1..Len(fs[1].blocks[1].text) : ModeLineAt(fs[1].blocks[1].text, k, m)
  /\ \A i, j \in Ids :
       ( /\ IsHouseRules(i) /\ IsHouseRules(j)
         /\ Prop(reqs[i].args, "mode").t = "string"
         /\ Prop(reqs[j].args, "mode").t = "string" ) =>
         LET ti == C9_PromptText(i)
             tj == C9_PromptText(j)
             mi == Prop(reqs[i].args, "mode").s
             mj == Prop(reqs[j].args, "mode").s
         IN  \E k \in 1..Len(ti) :
               /\ ModeLineAt(ti, k, mi) /\ ModeLineAt(tj, k, mj)
               /\ SubSeq(ti, 1, k) = SubSeq(tj, 1, k)
               /\ SubSeq(ti, k + Len(mi) + 1, Len(ti)) = SubSeq(tj, k + Len(mj) + 1, Len(tj))

\* house_rules asked for once without arguments and once with mode "review"
C9_Witness ==
  /\ \E i \in Ids : IsHouseRules(i) /\ reqs[i].args = NoArguments /\ Answered(i)
  /\ \E i \in Ids :
       /\ IsHouseRules(i) /\ Answered(i)
       /\ reqs[i].args = Arguments("mode" :> StringVal(<<"review">>))

(* -------------------------------- C10 ---------------------------------- *)

Registered(i) ==
  \/ IsHouseRules(i)
  \/ IsCallTool(i) /\ reqs[i].name = <<"git_context">>

\* an argument of request i is present but of the wrong type or out of bounds
C10_Mismatch(i) ==
  \/ IsHouseRules(i) /\ Prop(reqs[i].args, "mode").t \notin {"undefined", "string"}
  \/ /\ IsCallTool(i)
     /\ \/ Prop(reqs[i].args, "repoPath").t \notin {"undefined", "string"}
        \/ /\ Prop(reqs[i].args, "maxCommits").t # "undefined"
           /\ ~( /\ Prop(reqs[i].args, "maxCommits").t = "number"
                 /\ Prop(reqs[i].args, "maxCommits").tenths = 0
                 /\ Prop(reqs[i].args, "maxCommits").int \in 1..50 )

C10_Rejected(i) ==
  LET fs == FramesOf(i) IN
    /\ Len(fs) = 1
    /\ fs[1].type = "error"
    /\ fs[1].blocks = <<>>
    /\ \E is \in fs[1].issues : is.code \in {"invalid_type", "too_small", "too_big"}

\* C10 as stated: for every request to a registered capability, an argument
\* present but of the wrong type or out of bounds yields a validation error
\* frame and no content frame, get-prompt house_rules with a mode that is not
\* a string included.
C10_MismatchAlwaysRejected ==
  \A i \in Ids : (Registered(i) /\ C10_Mismatch(i)) => C10_Rejected(i)

\* C10 as amended: the rule holds of call-tool git_context; get-prompt
\* house_rules does not validate mode, and a mode that is present and not a
\* string is read as absent and answered with the "Mode: general" text.
C10_MismatchRejectedByToolOnly ==
  \A i \in Ids :
    (Registered(i) /\ C10_Mismatch(i)) =>
      IF IsCallTool(i)
      THEN C10_Rejected(i) /\ reqs[i].invs = <<>>
      ELSE LET fs == FramesOf(i) IN
             /\ Len(fs) = 1
             /\ fs[1].type = "result"
             /\ Len(fs[1].blocks) = 1
             /\ \E k \in 1..Len(fs[1].blocks[1].text) :
                  ModeLineAt(fs[1].blocks[1].text, k, <<"general">>)

\* house_rules asked for with the number 7 as mode, and git_context called
\* with a string as maxCommits
C10_Witness ==
  /\ \E i \in Ids :
       IsHouseRules(i) /\ Prop(reqs[i].args, "mode") = NumberVal(7, 0) /\ Answered(i)
  /\ \E i \in Ids :
       /\ IsCallTool(i) /\ reqs[i].name = <<"git_context">> /\ Answered(i)
       /\ Prop(reqs[i].args, "maxCommits").t = "string"

(* -------------------------------- C11 ---------------------------------- *)

IsGitContext(i) == IsCallTool(i) /\ reqs[i].name = <<"git_context">>

\* the arguments of request i name a repository and leave maxCommits out or
\* give an integer in [1,50]
C11_ValidCount(i) ==
  /\ Prop(reqs[i].args, "repoPath").t = "string"
  /\ Prop(reqs[i].args, "repoPath").s # <<>>
  /\ \/ Prop(reqs[i].args, "maxCommits").t = "undefined"
     \/ /\ Prop(reqs[i].args, "maxCommits").t = "number"
        /\ Prop(reqs[i].args, "maxCommits").tenths = 0
        /\ Prop(reqs[i].args, "maxCommits").int \in 1..50

\* the count such a request asks for, as git reads it on its command line
C11_Count(i) ==
  IF Prop(reqs[i].args, "maxCommits").t = "undefined"
  THEN <<"1", "5">>
  ELSE NumToString(Prop(reqs[i].args, "maxCommits").int)

\* C11: a call-tool git_context with a repoPath and no maxCommits is accepted
\* and its commit list is run with "-n 15"; with an integer maxCommits n in
\* [1,50], 1 and 50 included, it is accepted and the commit list is run with
\* "-n n".
C11_CommitCount ==
  \A i \in Ids :
    (IsGitContext(i) /\ C11_ValidCount(i)) =>
      LET invs == reqs[i].invs IN
        /\ invs # <<>>
        /\ \A k \in 1..Len(chan.stdout) :
             chan.stdout[k].id = i => chan.stdout[k].shape # "ZodError"
        /\ Len(invs) >= 3 =>
             /\ invs[3].cmd = "commits"
             /\ invs[3].argv =
                  << <<"-C">>, Prop(reqs[i].args, "repoPath").s, <<"log">>, <<"-n">>,
                     C11_Count(i), <<"--pretty=format:%h %s">> >>

\* a commit list run for a request without maxCommits, beside one run for a
\* request with maxCommits 50
C11_Witness ==
  /\ \E i \in Ids :
       /\ IsGitContext(i) /\ Prop(reqs[i].args, "maxCommits").t = "undefined"
       /\ Len(reqs[i].invs) >= 3
  /\ \E i \in Ids :
       /\ IsGitContext(i) /\ Prop(reqs[i].args, "maxCommits") = NumberVal(50, 0)
       /\ Len(reqs[i].invs) >= 3

(* -------------------------------- C12 ---------------------------------- *)

\* what git answered to the k-th invocation of request i
C12_Outcome(i, k) == <<reqs[i].invs[k].cmd, reqs[i].invs[k].status, reqs[i].invs[k].stdout>>

\* requests i and j are call-tool git_context with the same arguments, both
\* handlers have returned, and git gave the same answer to every invocation
\* both of them made (the repository did not change between them)
C12_SameCallSameRepository(i, j) ==
  /\ IsGitContext(i) /\ IsGitContext(j)
  /\ reqs[i].args = reqs[j].args
  /\ reqs[i].pc = "done" /\ reqs[j].pc = "done"
  /\ \A k \in 1..Len(reqs[i].invs) :
       k <= Len(reqs[j].invs) => C12_Outcome(i, k) = C12_Outcome(j, k)

\* the frame written for request i, without the number of the request
C12_Content(i) ==
  LET f == FramesOf(i)[1]
  IN  <<f.type, f.shape, f.blocks, f.message, f.decls, f.issues>>

C13_Success(i) ==
  /\ IsGitContext(i)
  /\ Len(reqs[i].invs) = 4
  /\ \A k \in 1..4 : reqs[i].invs[k].status = "ok"

\* the lines of the "## Recent commits" section for the commit list's output
C13_CommitLines(out) ==
  IF Trim(out) = <<>>
  THEN << <<"- None">> >>
  ELSE LET ls == Split(Trim(out), "\n")
       IN  [k \in 1..Len(ls) |-> <<"- ">> \o ls[k]]

\* C13: on the success path the result is one text block whose lines are, in
\* this order, "# Repo Context", "- Branch: <branch>", an empty line,
\* "## Recent commits", one "- " bullet per line of the commit list's trimmed
\* output (so no more bullets than that output has lines) or the single line
\* "- None" when it is empty, an empty line, "## Latest commit diffstat", and
\* the diffstat's trimmed output between two delimiter lines.
C13_PayloadLayout ==
  \A i \in Ids :
    C13_Success(i) =>
      LET fs == FramesOf(i)
          invs == reqs[i].invs
      IN  /\ Len(fs) = 1
          /\ fs[1].type = "result"
          /\ Len(fs[1].blocks) = 1
          /\ fs[1].blocks[1].type = "text"
          /\ Split(fs[1].blocks[1].text, "\n") =
               << <<"# Repo Context">>,
                  <<"- Branch: ">> \o Trim(invs[2].stdout),
                  <<>>,
                  <<"## Recent commits">> >>
               \o C13_CommitLines(invs[3].stdout)
               \o << <<>>, <<"## Latest commit diffstat">>, Fence >>
               \o Split(Trim(invs[4].stdout), "\n")
               \o << Fence >>
          /\ Trim(invs[3].stdout) # <<>> =>
               LET out == Trim(invs[3].stdout)
                   n == Cardinality({k \in 1..Len(out) : out[k] = "\n"}) + 1
               IN  /\ Len(C13_CommitLines(invs[3].stdout)) = n
                   /\ n <= reqs[i].parsed.maxCommits =>
                        Len(C13_CommitLines(invs[3].stdout)) <= reqs[i].parsed.maxCommits

\* a repository with two commits and one whose commit list is empty, both
\* answered with their context
C13_Witness ==
  /\ \E i \in Ids :
       C13_Success(i) /\ Answered(i) /\ Len(C13_CommitLines(reqs[i].invs[3].stdout)) = 2
  /\ \E i \in Ids :
       C13_Success(i) /\ Answered(i) /\ reqs[i].invs[3].stdout = <<>>

(* -------------------------------- C14 ---------------------------------- *)

\* request j ended in an error frame
C14_EndedInError(j) ==
  \E k \in 1..Len(chan.stdout) :
    chan.stdout[k].id = j /\ chan.stdout[k].type = "error"

\* whatever error frames have been written, the process is running and a
\* further request of each kind is accepted
C14_StillServing ==
  (\E j \in Ids : C14_EndedInError(j)) =>
    /\ phase = "serving"
    /\ exitCode = <<>>
    /\ Len(reqs) < MaxRequests =>
         /\ ENABLED ListPrompts
         /\ ENABLED GetPrompt
         /\ ENABLED ListTools
         /\ ENABLED CallTool

\* C14: a request that ends in an error frame (unknown name, arguments
\* refused by the schema, a git invocation failing after the probe) does not
\* stop the server: the process keeps running and accepting requests, and
\* every request received beside or after a failed one is answered.
C14_ErrorsDoNotStopServer ==
  /\ []C14_StillServing
  /\ \A i \in 1..MaxRequests :
       (Len(reqs) >= i /\ \E j \in Ids : j # i /\ C14_EndedInError(j))
         ~> (Len(FramesOf(i)) = 1)

\* a request refused by the schema, and after it a git_context call answered
\* with the repository's context
C14_Witness ==
  /\ Len(reqs) = 2
  /\ C14_EndedInError(1) /\ FramesOf(1)[1].shape = "ZodError"
  /\ IsGitContext(2) /\ Len(reqs[2].invs) = 4
  /\ Len(FramesOf(2)) = 1 /\ FramesOf(2)[1].type = "result"

(* -------------------------------- C15 ---------------------------------- *)

\* requests i and j are the same request (method, name, arguments), both
\* handlers have returned, and git gave the same answer to every invocation
\* both of them made
C15_SameRequest(i, j) ==
  /\ reqs[i].method = reqs[j].method
  /\ reqs[i].name = reqs[j].name
  /\ reqs[i].args = reqs[j].args
  /\ reqs[i].pc = "done" /\ reqs[j].pc = "done"
  /\ \A k \in 1..Len(reqs[i].invs) :
       k <= Len(reqs[j].invs) =>
         /\ reqs[i].invs[k].status = reqs[j].invs[k].status
         /\ reqs[i].invs[k].stdout = reqs[j].invs[k].stdout

\* the outcome of a request is a function of the request and of what git
\* answered to it, and the two lists are the declarations of the source
C15_OutcomeIsFunctionOfRequest ==
  /\ \A i, j \in Ids :
       (i < j /\ C15_SameRequest(i, j)) =>
         LET fi == FramesOf(i)
             fj == FramesOf(j)
         IN  /\ Len(fi) = 1 /\ Len(fj) = 1
             /\ [fi[1] EXCEPT !.id = 0] = [fj[1] EXCEPT !.id = 0]
             /\ [k \in 1..Len(reqs[i].invs) |-> reqs[i].invs[k].argv]
                  = [k \in 1..Len(reqs[j].invs) |-> reqs[j].invs[k].argv]
  /\ \A i \in Ids :
       /\ reqs[i].method = "prompts/list" =>
            /\ Len(FramesOf(i)) = 1
            /\ FramesOf(i)[1].decls =
                 << [name |-> <<"house_rules">>, arguments |-> <<"mode">>,
                     required |-> {}] >>
       /\ reqs[i].method = "tools/list" =>
            /\ Len(FramesOf(i)) = 1
            /\ FramesOf(i)[1].decls =
                 << [name |-> <<"git_context">>,
                     arguments |-> <<"repoPath", "maxCommits">>,
                     required |-> {"repoPath"}] >>

\* the frames a step writes to stdout
C15_Written == SubSeq(chan'.stdout, Len(chan.stdout) + 1, Len(chan'.stdout))

\* a step belongs to one request: it leaves the record of every other request
\* and every frame already written as they are, and writes frames for that
\* request only
C15_StepTouchesOneRequest ==
  /\ IsPrefixOf(reqs, reqs') \/ Len(reqs') = Len(reqs)
  /\ Len(reqs') <= Len(reqs) + 1
  /\ IsPrefixOf(chan.stdout, chan'.stdout)
  /\ \E i \in 1..Len(reqs') :
       /\ \A j \in 1..Len(reqs) : j # i => reqs'[j] = reqs[j]
       /\ \A k \in 1..Len(C15_Written) : C15_Written[k].id = i
       /\ i <= Len(reqs) =>
            /\ reqs'[i].method = reqs[i].method
            /\ reqs'[i].name = reqs[i].name
            /\ reqs'[i].args = reqs[i].args
            /\ reqs'[i].parsed = reqs[i].parsed

\* C15: no request changes what another request sees. Every step of a handler
\* touches its own request only, the outcome of a request is determined by
\* its method, name and arguments and by what git answered to it, whichever
\* requests came before or run beside it, and list-prompts and list-tools
\* return the same declarations every time.
C15_RequestsAreIndependent ==
  /\ []C15_OutcomeIsFunctionOfRequest
  /\ [][phase = "serving" => C15_StepTouchesOneRequest]_vars

\* the tool list asked for and answered after a git_context call whose
\* commit list failed
C15_Witness ==
  /\ Len(reqs) = 2
  /\ IsGitContext(1) /\ Len(reqs[1].invs) = 3 /\ C14_EndedInError(1)
  /\ reqs[2].method = "tools/list" /\ Answered(2)
  /\ \E k \in 1..(Len(chan.stdout) - 1) : chan.stdout[k].id = 1 /\ chan.stdout[k + 1].id = 2

(* -------------------------------- C16 ---------------------------------- *)

C16_Confirmed ==
  \E k \in 1..Len(chan.stderr) :
    chan.stderr[k].text = <<"mcp-house-rules running on stdio", "\n">>

C16_Narrated ==
  \E k \in 1..Len(chan.stderr) :
    /\ IsPrefixOf(<<"Fatal error:", " ">>, chan.stderr[k].text)
    /\ Len(chan.stderr[k].text) > 3

C16_StartupState ==
  /\ C16_Confirmed => phase = "serving"
  /\ phase = "connecting" => (reqs = <<>> /\ chan.stdout = <<>> /\ exitCode = <<>>)
  /\ phase = "serving" => (C16_Confirmed /\ exitCode = <<>>)
  /\ phase = "exited" =>
       /\ C16_Narrated
       /\ ~C16_Confirmed
       /\ exitCode = <<1>>
       /\ reqs = <<>>
       /\ chan.stdout = <<>>

C16_StartupStep ==
  /\ phase # "exited"
  /\ phase' = "serving" => (phase = "serving" \/ (phase = "connecting" /\ C16_Confirmed'))
  /\ phase' = "exited" => phase = "connecting"
  /\ reqs' # reqs => phase = "serving"
  /\ chan'.stdout # chan.stdout => phase = "serving"

\* C16: the startup confirmation is on stderr only once connect has
\* succeeded, and no request is received before that; when connect fails the
\* error is written to stderr, the process exits with code 1, and from then
\* on nothing happens: no request is received and no frame is written.
C16_StartupOrExit ==
  /\ []C16_StartupState
  /\ [][C16_StartupStep]_vars

\* connect has failed and the process has exited
C16_Witness ==
  /\ phase = "exited"
  /\ exitCode = <<1>>
  /\ C16_Narrated

(* -------------------------------- C17 ---------------------------------- *)

\* request i is a call-tool whose name is no tool and whose arguments the
\* schema of git_context would refuse
C17_UnknownAndInvalid(i) ==
  /\ IsCallTool(i)
  /\ reqs[i].name # <<"git_context">>
  /\ C2_ClaimInvalid(reqs[i].args)

\* C17: the name is resolved before the arguments are validated: a call-tool
\* with an unknown name and arguments that would fail validation ends in the
\* error "Unknown tool: <name>", never in a validation error, and its
\* arguments are never parsed.
C17_NameBeforeArguments ==
  \A i \in Ids :
    C17_UnknownAndInvalid(i) =>
      /\ ~reqs[i].parseCalled
      /\ \A k \in 1..Len(chan.stdout) :
           chan.stdout[k].id = i =>
             /\ chan.stdout[k].type = "error"
             /\ chan.stdout[k].shape = "Error"
             /\ chan.stdout[k].issues = {}
             /\ chan.stdout[k].message = <<"Unknown tool: ">> \o reqs[i].name
      /\ \E k \in 1..Len(chan.stdout) : chan.stdout[k].id = i

\* the tool house_rules, which is a prompt, called with maxCommits 51
C17_Witness ==
  \E i \in Ids :
    /\ C17_UnknownAndInvalid(i)
    /\ reqs[i].name = <<"house_rules">>
    /\ Prop(reqs[i].args, "maxCommits") = NumberVal(51, 0)
    /\ Answered(i)

(* -------------------------------- C18 ---------------------------------- *)

\* the argument keys the two capabilities declare
C18_Declared(i) ==
  IF IsGetPrompt(i) THEN {"mode"} ELSE {"repoPath", "maxCommits"}

\* requests i and j ask for the same registered capability with argument
\* objects that agree on every declared key, j carrying keys i does not have;
\* both handlers have returned, and git gave the same answer to every
\* invocation both of them made
C18_SameButExtraKeys(i, j) ==
  /\ Registered(i) /\ Registered(j)
  /\ reqs[i].method = reqs[j].method
  /\ reqs[i].args.present /\ reqs[j].args.present
  /\ DOMAIN reqs[i].args.bag \subseteq C18_Declared(i)
  /\ ~(DOMAIN reqs[j].args.bag \subseteq C18_Declared(j))
  /\ \A key \in C18_Declared(i) : Prop(reqs[i].args, key) = Prop(reqs[j].args, key)
  /\ reqs[i].pc = "done" /\ reqs[j].pc = "done"
  /\ \A k \in 1..Len(reqs[i].invs) :
       k <= Len(reqs[j].invs) =>
         /\ reqs[i].invs[k].status = reqs[j].invs[k].status
         /\ reqs[i].invs[k].stdout = reqs[j].invs[k].stdout

\* C18: keys the capability does not declare are ignored: a call-tool
\* git_context or get-prompt house_rules carrying such keys makes the same
\* invocations, with the same command lines, and is answered with the same
\* content or error as the request without them.
C18_ExtraKeysIgnored ==
  \A i, j \in Ids :
    C18_SameButExtraKeys(i, j) =>
      LET fi == FramesOf(i)
          fj == FramesOf(j)
      IN  /\ Len(fi) = 1 /\ Len(fj) = 1
          /\ fi[1].type = fj[1].type
          /\ fi[1].blocks = fj[1].blocks
          /\ fi[1].message = fj[1].message
          /\ fi[1].issues = fj[1].issues
          /\ reqs[i].invs = reqs[j].invs
          /\ reqs[i].parsed = reqs[j].parsed

\* git_context called for a repository with and without the key "extra",
\* both calls answered with the repository's context
C18_Witness ==
  \E i, j \in Ids :
    /\ C18_SameButExtraKeys(i, j)
    /\ IsCallTool(i)
    /\ "extra" \in DOMAIN reqs[j].args.bag
    /\ Len(reqs[j].invs) = 4 /\ reqs[j].invs[4].status = "ok"
    /\ Answered(i) /\ Answered(j)

(* -------------------------------- C19 ---------------------------------- *)

\* the names in the answer to the list request l
C19_Listed(l) ==
  LET d == FramesOf(l)[1].decls IN {d[k].name : k \in 1..Len(d)}

\* the name of request i was not resolved: it was answered with the
\* unknown-capability error
C19_Refused(i) ==
  \E k \in 1..Len(chan.stdout) :
    /\ chan.stdout[k].id = i
    /\ chan.stdout[k].type = "error"
    /\ chan.stdout[k].message = NotFoundMessage(i)

\* C19: list-prompts returns the one declaration house_rules and list-tools
\* the one declaration git_context; get-prompt resolves a name exactly when
\* list-prompts returns it and call-tool exactly when list-tools returns it;
\* call-tool does not resolve house_rules and get-prompt does not resolve
\* git_context.
C19_DiscoveryAgreesWithDispatch ==
  /\ \A l \in Ids :
       /\ reqs[l].method = "prompts/list" =>
            /\ Len(FramesOf(l)) = 1
            /\ Len(FramesOf(l)[1].decls) = 1
            /\ C19_Listed(l) = { <<"house_rules">> }
            /\ \A i \in Ids :
                 IsGetPrompt(i) => (~C19_Refused(i) <=> reqs[i].name \in C19_Listed(l))
       /\ reqs[l].method = "tools/list" =>
            /\ Len(FramesOf(l)) = 1
            /\ Len(FramesOf(l)[1].decls) = 1
            /\ C19_Listed(l) = { <<"git_context">> }
            /\ \A i \in Ids :
                 IsCallTool(i) => (~C19_Refused(i) <=> reqs[i].name \in C19_Listed(l))
  /\ \A i \in Ids :
       /\ IsGetPrompt(i) => (~C19_Refused(i) <=> reqs[i].name = <<"house_rules">>)
       /\ IsCallTool(i) => (~C19_Refused(i) <=> reqs[i].name = <<"git_context">>)

\* the tools listed, and after that a call-tool for the prompt's name refused
C19_Witness ==
  /\ Len(reqs) = 2
  /\ reqs[1].method = "tools/list" /\ Answered(1)
  /\ IsCallTool(2) /\ reqs[2].name = <<"house_rules">> /\ C19_Refused(2)

(* -------------------------------- C20 ---------------------------------- *)

C20_EmptyRepoPath(i) ==
  IsGitContext(i) /\ Prop(reqs[i].args, "repoPath") = StringVal(<<>>)

\* C20: a call-tool git_context whose repoPath is the empty string is refused
\* by the schema: it ends in one validation error frame naming repoPath, no
\* git invocation is started for it, and it is not answered with the content
\* "Not a git repository: ".
C20_EmptyRepoPathRejected ==
  \A i \in Ids :
    C20_EmptyRepoPath(i) =>
      LET fs == FramesOf(i) IN
        /\ reqs[i].parseCalled
        /\ reqs[i].invs = <<>>
        /\ Len(fs) = 1
        /\ fs[1].type = "error"
        /\ fs[1].shape = "ZodError"
        /\ [path |-> "repoPath", code |-> "too_small"] \in fs[1].issues
        /\ fs[1].blocks = <<>>

\* git_context called with repoPath "" and answered
C20_Witness ==
  \E i \in Ids :
    /\ C20_EmptyRepoPath(i)
    /\ reqs[i].args = Arguments("repoPath" :> StringVal(<<>>))
    /\ Answered(i)

====
